---- MODULE Spec2Model ----
(***************************************************************************)
(* A model of sunburnt/indexer.py: the Field descriptor, the class         *)
(* composition done by IndexerMetaclass.__new__, BaseIndexer.__init__,     *)
(* BaseIndexer.transform and the reconciliation run BaseIndexer.update.    *)
(*                                                                         *)
(* The search engine (self.interface), the schema and the query object are *)
(* collaborators whose code is not in indexer.py.  The engine is modelled  *)
(* as a log of the calls it receives plus a document store to which add    *)
(* and delete are applied in arrival order.                                *)
(***************************************************************************)
EXTENDS Integers, Sequences, FiniteSets, TLC

VARIABLES
    clock,        \* the wall clock read by datetime.datetime.now()
    meta,         \* the index type's _meta: [collection, documents]
    feed,         \* per indexer: what get_records() returns on each future update() call
    pc,           \* per indexer: position in __init__ / update()
    watermark,    \* per indexer: self.solr_update_timestamp
    fields,       \* per indexer: self.fields
    records,      \* per indexer: the records get_records() returned to the running update()
    pos,          \* per indexer: how many of them the for loop has pulled
    additions,    \* per indexer: the local list `additions` of update()
    delete_query, \* per indexer: the local `delete_query` of update()
    run,          \* per indexer: number of update() calls started
    transformed,  \* per indexer: the documents transform() returned in the current update()
    overlapped,   \* an update() call started while another indexer's was in progress
    calls,        \* the engine calls received so far, in arrival order
    index,        \* the engine's document store
    arg,          \* input of the operation applied by SpecTransform / SpecCompose
    res           \* its result

vars == <<clock, meta, feed, pc, watermark, fields, records, pos, additions,
          delete_query, run, transformed, overlapped, calls, index, arg, res>>

(***************************************************************************)
(* Bounds of the model.                                                    *)
(***************************************************************************)
MaxRecords == 5
MaxThreshold == 2
MaxClock == 2
MaxRuns == 2
RerunRecords == 2
RaceRecords == 1
MaxPathLen == 2

(***************************************************************************)
(* Values.  Python values are tagged records so that values of different   *)
(* shapes can be compared.                                                 *)
(***************************************************************************)
None == [kind |-> "null"]
Atom(v) == [kind |-> "atom", v |-> v]
Obj(f) == [kind |-> "obj", attrs |-> f]
Callable(r) == [kind |-> "call", ret |-> r]

\* The outcome of an expression that may raise AttributeError.
Ok(v) == [ok |-> TRUE, value |-> v]
AttributeError == [ok |-> FALSE, value |-> None]

(***************************************************************************)
(* Field.__init__ (solr_field is bound later, by BaseIndexer.__init__).    *)
(* An attribute path is the sequence of the characters of the dotted       *)
(* string, one token per name and one per "."; NoAttribute is the          *)
(* attribute=None default.                                                 *)
(***************************************************************************)
NoAttribute == <<>>
Field(attribute, optional) ==
    [kind |-> "field", attribute |-> attribute, optional |-> optional,
     solr_field |-> None]

\* str.split('.') on a token sequence.
RECURSIVE Split(_)
Split(path) ==
    IF path = <<>> THEN << <<>> >>
    ELSE LET rest == Split(Tail(path))
         IN IF Head(path) = "."
            THEN << <<>> >> \o rest
            ELSE << <<Head(path)>> \o Head(rest) >> \o Tail(rest)

\* A segment produced by Split is a sequence of zero or one name tokens.
SegmentName(seg) == IF seg = <<>> THEN "" ELSE Head(seg)

(***************************************************************************)
(* schema.get_attribute_or_callable(value, name): the attribute of that    *)
(* name, called when it is callable; AttributeError when there is none.    *)
(***************************************************************************)
get_attribute_or_callable(value, name) ==
    IF value.kind = "obj" /\ name \in DOMAIN value.attrs
    THEN LET a == value.attrs[name]
         IN Ok(IF a.kind = "call" THEN a.ret ELSE a)
    ELSE AttributeError

\* The traversal loop of transform (lines 83-87).
RECURSIVE Traverse(_, _)
Traverse(value, names) ==
    IF names = <<>> THEN Ok(value)
    ELSE IF value = None THEN AttributeError
    ELSE LET got == get_attribute_or_callable(value, SegmentName(Head(names)))
         IN IF ~got.ok THEN AttributeError ELSE Traverse(got.value, Tail(names))

\* The transform_<name> methods BaseIndexer defines.
transform_solr_collection(m, record) == Atom(m.collection)

WrongStampEpoch(now, record) == Atom(0)
transform_solr_update_timestamp(now, record) == Atom(now)

\* getattr(self, 'transform_%s' % field_name)(record)
CallResolver(field_name, record, m, now) ==
    IF field_name = "solr_collection" THEN Ok(transform_solr_collection(m, record))
    ELSE IF field_name = "solr_update_timestamp"
         THEN Ok(transform_solr_update_timestamp(now, record))
    ELSE AttributeError

\* The try block of transform for one field (lines 68-88); every field of
\* the modelled schema is non-dynamic.
ResolveField(field_name, field, record, m, now) ==
    IF field.attribute = NoAttribute
    THEN CallResolver(field_name, record, m, now)
    ELSE Traverse(record, Split(field.attribute))

\* `except AttributeError: if not field.optional: raise` (lines 89-91)
AlwaysSuppress(field) == TRUE
NeverSuppress(field) == FALSE
Suppressed(field) == field.optional

\* A failed transform: the exception leaves no document.
Raised == [ok |-> FALSE, document |-> <<>>]

\* BaseIndexer.transform: the loop over self.fields.items().
RECURSIVE TransformLoop(_, _, _, _, _, _)
TransformLoop(fs, names, record, m, now, document) ==
    IF names = {} THEN [ok |-> TRUE, document |-> document]
    ELSE LET field_name == CHOOSE n \in names : TRUE
             got == ResolveField(field_name, fs[field_name], record, m, now)
             rest == names \ {field_name}
         IN IF ~got.ok
            THEN IF Suppressed(fs[field_name])
                 THEN TransformLoop(fs, rest, record, m, now, document)
                 ELSE Raised
            ELSE TransformLoop(fs, rest, record, m, now,
                               document @@ (field_name :> got.value))

transform(fs, record, m, now) ==
    TransformLoop(fs, DOMAIN fs, record, m, now, <<>>)

(***************************************************************************)
(* Classes.  A class is its metaclass, its bases and its namespace; a      *)
(* namespace maps attribute names to values.                               *)
(***************************************************************************)
Class(metaclass, bases, dict) ==
    [kind |-> "class", metaclass |-> metaclass, bases |-> bases, dict |-> dict]

\* class BaseIndexer(object) and class Indexer(BaseIndexer) (lines 48, 147-148):
\* Indexer has no parent made by IndexerMetaclass, so __new__ leaves it alone.
BaseIndexer == Class("type", <<>>, <<>>)
Indexer == Class("IndexerMetaclass", <<BaseIndexer>>, <<>>)

\* The default of Meta.documents (line 34).
DefaultDocuments == 100

\* Names Python itself puts in a class body's __dict__.
Dunder == {"__module__", "__doc__"}

\* A failed class statement.
ClassError(message) == [ok |-> FALSE, error |-> message, cls |-> None]

\* dict((x, y) for x, y in obj.__dict__.items() if not x.startswith('__'))
\* followed by the `documents` default (lines 32-34).
MetaDict(obj) ==
    LET plain == [k \in (DOMAIN obj.dict) \ Dunder |-> obj.dict[k]]
    IN IF "documents" \in DOMAIN plain THEN plain
       ELSE plain @@ ("documents" :> DefaultDocuments)

\* The names of a class body that are bound to Field instances (line 29).
DeclaredFields(attrs) == {n \in DOMAIN attrs : attrs[n].kind = "field"}

\* The base_fields a class statement stores (lines 26-30, 41).
OwnBaseFields(parents, attrs) ==
    [n \in DeclaredFields(attrs) |-> attrs[n]]

\* IndexerMetaclass.__new__(cls, name, bases, attrs)
IndexerMetaclassNew(bases, attrs) ==
    LET parents == SelectSeq(bases, LAMBDA b : b.metaclass = "IndexerMetaclass")
    IN IF parents = <<>>
       THEN [ok |-> TRUE, error |-> "", cls |-> Class("IndexerMetaclass", bases, attrs)]
       ELSE IF "Meta" \notin DOMAIN attrs \/ attrs["Meta"].kind = "field"
       THEN ClassError("You must provide Meta attributes")
       ELSE LET m == MetaDict(attrs["Meta"])
            IN IF DOMAIN m # {"collection", "documents"}
               THEN ClassError("Invalid Meta parameters")
               ELSE LET kept == [n \in (DOMAIN attrs) \ DeclaredFields(attrs) |-> attrs[n]]
                        body == ("base_fields" :> OwnBaseFields(parents, attrs))
                                @@ ("_meta" :> m) @@ kept
                    IN [ok |-> TRUE, error |-> "",
                        cls |-> Class("IndexerMetaclass", bases, body)]

\* Attribute lookup on a class: its own namespace, then its bases in order.
RECURSIVE ClassAttr(_, _)
ClassAttr(cls, name) ==
    IF name \in DOMAIN cls.dict THEN Ok(cls.dict[name])
    ELSE IF cls.bases = <<>> THEN AttributeError
    ELSE ClassAttr(Head(cls.bases), name)

\* schema.match_field(field_name): the schema's shape of the field.
match_field(field_name) == [kind |-> "solr_field", dynamic |-> FALSE]

\* self.fields as BaseIndexer.__init__ builds it (lines 53-60).
InitFields(base_fields) ==
    LET updated == [n \in {"solr_collection", "solr_update_timestamp"} |->
                       Field(NoAttribute, FALSE)] @@ base_fields
    IN [n \in DOMAIN updated |->
           [updated[n] EXCEPT !.solr_field = match_field(n)]]

(***************************************************************************)
(* The index type the reconciliation runs use:                             *)
(*     class WidgetIndexer(Indexer):                                       *)
(*         pk = Field('pk')                                                *)
(*         title = Field('info.title')                                     *)
(*         owner = Field('owner.name', optional=True)                      *)
(*         class Meta: collection = 'widgets'; documents = <threshold>     *)
(***************************************************************************)
WidgetAttrs(threshold) ==
    [n \in {"pk", "title", "owner", "Meta"} |->
        CASE n = "pk" -> Field(<<"pk">>, FALSE)
          [] n = "title" -> Field(<<"info", ".", "title">>, FALSE)
          [] n = "owner" -> Field(<<"owner", ".", "name">>, TRUE)
          [] OTHER -> Class("type", <<>>,
                            [k \in {"collection", "documents", "__module__"} |->
                                CASE k = "collection" -> "widgets"
                                  [] k = "documents" -> threshold
                                  [] OTHER -> "indexers"])]

WidgetIndexer(threshold) == IndexerMetaclassNew(<<Indexer>>, WidgetAttrs(threshold)).cls

\* The record with primary key k the record source yields; a broken record
\* has no `info`, so the required field `title` cannot be resolved on it.
Record(k, broken) ==
    Obj([n \in {"pk", "info", "owner"} |->
            CASE n = "pk" -> Atom(k)
              [] n = "info" -> IF broken THEN None
                               ELSE Callable(Obj([t \in {"title"} |-> Atom("widget")]))
              [] OTHER -> None])

\* What one get_records() call yields: records 1..n, the one at `bad` broken.
RecordList(n, bad) == [k \in 1..n |-> Record(k, k = bad)]

(***************************************************************************)
(* The engine.  A query is a conjunction of clauses over field names plus  *)
(* its local_params; the store is a set of documents with unique key pk.   *)
(***************************************************************************)
Clause(field, op, value) == [field |-> field, op |-> op, value |-> value]

\* Whether the engine's boolean parser selects `document` for `q`.
Matches(q, document) ==
    \A n \in 1..Len(q.clauses) :
        LET c == q.clauses[n]
        IN /\ c.field \in DOMAIN document
           /\ document[c.field].kind = "atom"
           /\ CASE c.op = "eq" -> document[c.field].v = c.value
                [] c.op = "lt" -> document[c.field].v < c.value
                [] c.op = "lte" -> document[c.field].v <= c.value
                [] OTHER -> FALSE

\* interface.add(documents): each document replaces the stored one of its key.
RECURSIVE EngineAdd(_, _)
EngineAdd(store, documents) ==
    IF documents = <<>> THEN store
    ELSE LET d == Head(documents)
         IN EngineAdd({e \in store : e["pk"] # d["pk"]} \cup {d}, Tail(documents))

\* interface.delete(queries=q)
EngineDelete(store, q) == {d \in store : ~Matches(q, d)}

\* A document some earlier process left in the store.
StoredDocument(k, collection, stamp) ==
    [n \in {"pk", "title", "solr_collection", "solr_update_timestamp"} |->
        CASE n = "pk" -> Atom(k)
          [] n = "title" -> Atom("widget")
          [] n = "solr_collection" -> Atom(collection)
          [] OTHER -> Atom(stamp)]

\* The store before the first run: a stale document of this collection and
\* two documents of another collection, one old and one stamped in the future.
SeedIndex ==
    { StoredDocument(0, "widgets", 0),
      StoredDocument(-1, "gadgets", 0),
      StoredDocument(-2, "gadgets", MaxClock + 1) }

\* One entry of the call log.
NoQuery == [clauses |-> <<>>, local_params |-> {}]
Call(i, r, op, documents, q) ==
    [inst |-> i, run |-> r, op |-> op, docs |-> documents, query |-> q]

(***************************************************************************)
(* The pieces of BaseIndexer.update.                                       *)
(***************************************************************************)
\* `if len(additions) > self._meta['documents']` (line 119)
ShouldFlush(pending, m) == Len(pending) > m.documents

\* `additions = []` after an intermediate flush (line 121)
KeepBatch(pending) == pending
AfterFlush(pending) == <<>>

\* `additions.append(self.transform(record))` (line 122)
Pend(pending, document) == Append(pending, document)

\* `if len(additions)` (line 125)
AlwaysRemainder(pending) == TRUE
HasRemainder(pending) == Len(pending) # 0

\* delete_query as built for the count query (lines 132-135)
QueryUpToStamp(m, stamp) ==
    [clauses |-> << Clause("solr_collection", "eq", m.collection),
                    Clause("solr_update_timestamp", "lte", stamp) >>,
     local_params |-> {"lucene"}]
DeleteQuery(m, stamp) ==
    [clauses |-> << Clause("solr_collection", "eq", m.collection),
                    Clause("solr_update_timestamp", "lt", stamp) >>,
     local_params |-> {"lucene"}]

\* delete_query as passed to interface.delete (lines 141-142)
DeleteArgument(q) == [q EXCEPT !.local_params = {}]

Insts == {"A", "B"}
Running == {"upload", "commit", "sweep", "query", "delete", "optimize"}

(***************************************************************************)
(* Initial states.                                                         *)
(***************************************************************************)
InitEngine(feeds, thresholds) ==
    /\ clock = 1
    /\ \E t \in thresholds : meta = ClassAttr(WidgetIndexer(t), "_meta").value
    /\ feed \in feeds
    /\ pc = [i \in Insts |-> "unborn"]
    /\ watermark = [i \in Insts |-> 0]
    /\ fields = [i \in Insts |-> <<>>]
    /\ records = [i \in Insts |-> <<>>]
    /\ pos = [i \in Insts |-> 0]
    /\ additions = [i \in Insts |-> <<>>]
    /\ delete_query = [i \in Insts |-> NoQuery]
    /\ run = [i \in Insts |-> 0]
    /\ transformed = [i \in Insts |-> <<>>]
    /\ overlapped = FALSE
    /\ calls = <<>>
    /\ index = SeedIndex

\* Every record list of at most n records with at most one broken record.
RecordLists(n) == {RecordList(k, bad) : k \in 0..n, bad \in 0..n} 
GoodLists(n) == {RecordList(k, 0) : k \in 0..n}

\* Sequences of 1..n elements of S.
SeqsUpTo(S, n) == UNION {[1..k -> S] : k \in 1..n}

\* One indexer, one update() call over up to MaxRecords records.
Init ==
    /\ InitEngine({[i \in Insts |-> IF i = "A" THEN <<l>> ELSE <<>>] :
                      l \in RecordLists(MaxRecords)},
                  1..MaxThreshold)
    /\ arg = [op |-> "none"]
    /\ res = [done |-> FALSE]

\* One indexer, up to MaxRuns update() calls on it.
InitRerun ==
    /\ InitEngine({[i \in Insts |-> IF i = "A" THEN f ELSE <<>>] :
                      f \in SeqsUpTo(GoodLists(RerunRecords), MaxRuns)},
                  {1})
    /\ arg = [op |-> "none"]
    /\ res = [done |-> FALSE]

\* Two indexers of the same index type, one update() call each.
InitRace ==
    /\ InitEngine({[i \in Insts |-> IF i = "A" THEN <<a>> ELSE <<b>>] :
                      a \in GoodLists(RaceRecords), b \in GoodLists(RaceRecords)},
                  {1})
    /\ arg = [op |-> "none"]
    /\ res = [done |-> FALSE]

(***************************************************************************)
(* Actions.                                                                *)
(***************************************************************************)
\* datetime.datetime.now() advances.
Tick ==
    /\ clock < MaxClock
    /\ clock' = clock + 1
    /\ UNCHANGED <<meta, feed, pc, watermark, fields, records, pos, additions,
                   delete_query, run, transformed, overlapped, calls, index, arg, res>>

\* BaseIndexer.__init__ (lines 49-62)
Construct(i) ==
    /\ pc[i] = "unborn"
    /\ feed[i] # <<>>
    /\ watermark' = [watermark EXCEPT ![i] = clock]
    /\ fields' = [fields EXCEPT ![i] =
                     InitFields(ClassAttr(WidgetIndexer(meta.documents), "base_fields").value)]
    /\ pc' = [pc EXCEPT ![i] = "ready"]
    /\ UNCHANGED <<clock, meta, feed, records, pos, additions, delete_query, run,
                   transformed, overlapped, calls, index, arg, res>>

\* update() is called: lines 116-118 up to the first pull from get_records().
CallUpdate(i) ==
    /\ pc[i] \in {"ready", "done", "aborted"}
    /\ feed[i] # <<>>
    /\ records' = [records EXCEPT ![i] = Head(feed[i])]
    /\ feed' = [feed EXCEPT ![i] = Tail(feed[i])]
    /\ pos' = [pos EXCEPT ![i] = 0]
    /\ additions' = [additions EXCEPT ![i] = <<>>]
    /\ transformed' = [transformed EXCEPT ![i] = <<>>]
    /\ delete_query' = [delete_query EXCEPT ![i] = NoQuery]
    /\ run' = [run EXCEPT ![i] = run[i] + 1]
    /\ overlapped' = (overlapped \/ \E j \in Insts \ {i} : pc[j] \in Running)
    /\ pc' = [pc EXCEPT ![i] = "upload"]
    /\ UNCHANGED <<clock, meta, watermark, fields, calls, index, arg, res>>

\* One iteration of the for loop (lines 118-123).
LoopIteration(i) ==
    /\ pc[i] = "upload"
    /\ pos[i] < Len(records[i])
    /\ LET record == records[i][pos[i] + 1]
           full == ShouldFlush(additions[i], meta)
           pending == IF full THEN AfterFlush(additions[i]) ELSE additions[i]
           out == transform(fields[i], record, meta, clock)
       IN /\ pos' = [pos EXCEPT ![i] = pos[i] + 1]
          /\ calls' = IF full
                      THEN Append(calls, Call(i, run[i], "add", additions[i], NoQuery))
                      ELSE calls
          /\ index' = IF full THEN EngineAdd(index, additions[i]) ELSE index
          /\ IF out.ok
             THEN /\ additions' = [additions EXCEPT ![i] = Pend(pending, out.document)]
                  /\ transformed' = [transformed EXCEPT ![i] = Append(transformed[i], out.document)]
                  /\ pc' = pc
             ELSE /\ additions' = [additions EXCEPT ![i] = pending]
                  /\ transformed' = transformed
                  /\ pc' = [pc EXCEPT ![i] = "aborted"]
    /\ UNCHANGED <<clock, meta, feed, watermark, fields, records, delete_query, run,
                   overlapped, arg, res>>

\* The source is exhausted: the remainder is submitted (lines 125-127).
FlushRemainder(i) ==
    /\ pc[i] = "upload"
    /\ pos[i] = Len(records[i])
    /\ IF HasRemainder(additions[i])
       THEN /\ calls' = Append(calls, Call(i, run[i], "add", additions[i], NoQuery))
            /\ index' = EngineAdd(index, additions[i])
            /\ additions' = [additions EXCEPT ![i] = <<>>]
       ELSE UNCHANGED <<calls, index, additions>>
    /\ pc' = [pc EXCEPT ![i] = "commit"]
    /\ UNCHANGED <<clock, meta, feed, watermark, fields, records, pos, delete_query, run,
                   transformed, overlapped, arg, res>>

\* self.interface.commit() (line 129)
Commit(i) ==
    /\ pc[i] = "commit"
    /\ calls' = Append(calls, Call(i, run[i], "commit", <<>>, NoQuery))
    /\ pc' = [pc EXCEPT ![i] = "sweep"]
    /\ UNCHANGED <<clock, meta, feed, watermark, fields, records, pos, additions,
                   delete_query, run, transformed, overlapped, index, arg, res>>

\* The delete query is built (lines 132-135).
BuildQuery(i) ==
    /\ pc[i] = "sweep"
    /\ delete_query' = [delete_query EXCEPT ![i] = DeleteQuery(meta, watermark[i])]
    /\ pc' = [pc EXCEPT ![i] = "query"]
    /\ UNCHANGED <<clock, meta, feed, watermark, fields, records, pos, additions, run,
                   transformed, overlapped, calls, index, arg, res>>

\* self.interface.query(delete_query).execute() (line 137)
CountQuery(i) ==
    /\ pc[i] = "query"
    /\ calls' = Append(calls, Call(i, run[i], "query", <<>>, delete_query[i]))
    /\ pc' = [pc EXCEPT ![i] = "delete"]
    /\ UNCHANGED <<clock, meta, feed, watermark, fields, records, pos, additions,
                   delete_query, run, transformed, overlapped, index, arg, res>>

\* local_params are dropped and the query is passed to delete (lines 141-143).
Delete(i) ==
    /\ pc[i] = "delete"
    /\ delete_query' = [delete_query EXCEPT ![i] = DeleteArgument(delete_query[i])]
    /\ calls' = Append(calls, Call(i, run[i], "delete", <<>>, delete_query'[i]))
    /\ index' = EngineDelete(index, delete_query'[i])
    /\ pc' = [pc EXCEPT ![i] = "optimize"]
    /\ UNCHANGED <<clock, meta, feed, watermark, fields, records, pos, additions, run,
                   transformed, overlapped, arg, res>>

\* self.interface.optimize() (line 144); update() returns.
Optimize(i) ==
    /\ pc[i] = "optimize"
    /\ calls' = Append(calls, Call(i, run[i], "optimize", <<>>, NoQuery))
    /\ pc' = [pc EXCEPT ![i] = "done"]
    /\ UNCHANGED <<clock, meta, feed, watermark, fields, records, pos, additions,
                   delete_query, run, transformed, overlapped, index, arg, res>>

Next ==
    \/ Tick
    \/ \E i \in Insts :
          \/ Construct(i)
          \/ CallUpdate(i)
          \/ LoopIteration(i)
          \/ FlushRemainder(i)
          \/ Commit(i)
          \/ BuildQuery(i)
          \/ CountQuery(i)
          \/ Delete(i)
          \/ Optimize(i)

Spec == Init /\ [][Next]_vars
SpecRerun == InitRerun /\ [][Next]_vars
SpecRace == InitRace /\ [][Next]_vars

(***************************************************************************)
(* transform applied to one record, for index types whose two declared     *)
(* fields range over every attribute path of up to MaxPathLen names.       *)
(***************************************************************************)
\* '.'.join(names) as a token sequence.
RECURSIVE Dotted(_)
Dotted(names) ==
    IF Len(names) <= 1 THEN names
    ELSE <<Head(names), ".">> \o Dotted(Tail(names))

AttributeNames == {"name", "owner"}
Paths == {Dotted(p) : p \in SeqsUpTo(AttributeNames, MaxPathLen)}
Descriptors == {Field(p, o) : p \in Paths \cup {NoAttribute}, o \in BOOLEAN}

\* What an attribute of a record may hold.
Inner ==
    { None, Atom("v"),
      Obj([n \in {"name"} |-> Atom("w")]),
      Obj([n \in {"name"} |-> None]),
      Callable(Obj([n \in {"name"} |-> Atom("w")])) }

RecordUniverse ==
    {None} \cup {Obj(f) : f \in [{"name", "owner"} -> Inner]}
           \cup {Obj(f) : f \in [{"name"} -> Inner]}

\* No indexer runs: the engine side of the state stays as it starts.
engine_vars == <<clock, meta, feed, pc, watermark, fields, records, pos, additions,
                 delete_query, run, transformed, overlapped, calls, index>>

InitTransform ==
    /\ InitEngine({[i \in Insts |-> <<>>]}, {1})
    /\ arg \in [op : {"transform"}, base_fields : [{"title", "who"} -> Descriptors],
                record : RecordUniverse]
    /\ res = [done |-> FALSE]

\* indexer = <index type>(interface); indexer.transform(record)
ApplyTransform ==
    /\ arg.op = "transform"
    /\ ~res.done
    /\ res' = [done |-> TRUE,
               out |-> transform(InitFields(arg.base_fields), arg.record, meta, clock)]
    /\ UNCHANGED <<engine_vars, arg>>

NextTransform == ApplyTransform

SpecTransform == InitTransform /\ [][NextTransform]_vars

(***************************************************************************)
(* Two class statements, `class Parent(Indexer)` and `class Child(Parent)`, *)
(* whose bodies range over the declarations below, and an instantiation of *)
(* Child.                                                                  *)
(***************************************************************************)
MetaBodies ==
    { [k \in {"collection", "documents", "__module__"} |->
          CASE k = "collection" -> "widgets" [] k = "documents" -> 2 [] OTHER -> "indexers"],
      [k \in {"collection", "__module__"} |->
          CASE k = "collection" -> "widgets" [] OTHER -> "indexers"],
      [k \in {"collection", "documents", "rows"} |->
          CASE k = "collection" -> "widgets" [] OTHER -> 2] }

ComposeDescriptors == {Field(<<"name">>, FALSE), Field(<<"owner", ".", "name">>, TRUE)}

\* The class bodies: any of the fields title and body, with or without Meta.
FieldBodies == UNION {[S -> ComposeDescriptors] : S \in SUBSET {"title", "body"}}
ClassBodies ==
    FieldBodies \cup
    {("Meta" :> Class("type", <<>>, m)) @@ f : m \in MetaBodies, f \in FieldBodies}

NotDefined == ClassError("not defined")

InitCompose ==
    /\ InitEngine({[i \in Insts |-> <<>>]}, {1})
    /\ arg \in [op : {"compose"}, parent : ClassBodies, child : ClassBodies]
    /\ res = [done |-> FALSE, parent |-> NotDefined, child |-> NotDefined, fields |-> <<>>]

\* class Parent(Indexer): <arg.parent>
DefineParent ==
    /\ arg.op = "compose"
    /\ res.parent = NotDefined
    /\ res' = [res EXCEPT !.parent = IndexerMetaclassNew(<<Indexer>>, arg.parent)]
    /\ UNCHANGED <<engine_vars, arg>>

\* class Child(Parent): <arg.child>
DefineChild ==
    /\ arg.op = "compose"
    /\ res.parent.ok
    /\ res.child = NotDefined
    /\ res' = [res EXCEPT !.child = IndexerMetaclassNew(<<res.parent.cls>>, arg.child)]
    /\ UNCHANGED <<engine_vars, arg>>

\* Child(interface): BaseIndexer.__init__ builds self.fields.
Instantiate ==
    /\ arg.op = "compose"
    /\ res.child.ok
    /\ ~res.done
    /\ res' = [res EXCEPT !.done = TRUE,
                          !.fields = InitFields(ClassAttr(res.child.cls, "base_fields").value)]
    /\ UNCHANGED <<engine_vars, arg>>

NextCompose == DefineParent \/ DefineChild \/ Instantiate

SpecCompose == InitCompose /\ [][NextCompose]_vars

(***************************************************************************)
(* Properties.                                                             *)
(***************************************************************************)
\* The engine calls of update() call number r of indexer i, in arrival order.
RunCalls(i, r) == SelectSeq(calls, LAMBDA c : c.inst = i /\ c.run = r)

\* The calls of indexer i's current (or last) update() call.
ThisRun(i) == RunCalls(i, run[i])

Count(cs, op) == Cardinality({k \in 1..Len(cs) : cs[k].op = op})

\* The documents of the add calls among cs, batch after batch.
RECURSIVE Submitted(_)
Submitted(cs) ==
    IF cs = <<>> THEN <<>>
    ELSE (IF Head(cs).op = "add" THEN Head(cs).docs ELSE <<>>) \o Submitted(Tail(cs))

Elements(seq) == {seq[k] : k \in 1..Len(seq)}

\* The run's delete filter as the specification words it.
Stale(document, collection, t0) ==
    /\ document["solr_collection"].v = collection
    /\ document["solr_update_timestamp"].v < t0

\* C1: a complete update() with batchThreshold = 2 over 5 records that all
\* transform issues exactly 3 add calls, all before the commit, then exactly
\* 1 commit, 1 delete and 1 optimize.
C1_FiveRecordsThreeAdds ==
    (/\ pc["A"] = "done"
     /\ meta.documents = 2
     /\ Len(records["A"]) = 5
     /\ Len(transformed["A"]) = 5)
    => LET cs == ThisRun("A")
       IN /\ Count(cs, "add") = 3
          /\ \A k \in 1..3 : cs[k].op = "add"
          /\ Count(cs, "commit") = 1
          /\ Count(cs, "delete") = 1
          /\ Count(cs, "optimize") = 1

\* C9: the pending batch never holds more than batchThreshold documents and
\* no add call carries more than batchThreshold documents.
C9_PendingBounded ==
    /\ \A i \in Insts : Len(additions[i]) <= meta.documents
    /\ \A k \in 1..Len(calls) : Len(calls[k].docs) <= meta.documents

\* C2: every document an add call of a run submits carries the configured
\* collection and a stamp not earlier than the run's watermark, so it matches
\* neither the specified delete filter nor any filter the run sends to the
\* engine; a document of another collection matches no filter, whatever its
\* stamp, and stays in the store.
C2_SubmittedSurviveSweep ==
    /\ \A k \in 1..Len(calls) :
          calls[k].op = "add" =>
             \A d \in Elements(calls[k].docs) :
                /\ d["solr_collection"].v = meta.collection
                /\ d["solr_update_timestamp"].v >= watermark[calls[k].inst]
                /\ ~Stale(d, meta.collection, watermark[calls[k].inst])
                /\ \A j \in 1..Len(calls) :
                      (/\ calls[j].op \in {"query", "delete"}
                       /\ calls[j].inst = calls[k].inst
                       /\ calls[j].run = calls[k].run)
                      => ~Matches(calls[j].query, d)
    /\ \A d \in SeedIndex :
          d["solr_collection"].v # meta.collection =>
             /\ d \in index
             /\ \A i \in Insts : ~Stale(d, meta.collection, watermark[i])
             /\ \A j \in 1..Len(calls) :
                   calls[j].op \in {"query", "delete"} => ~Matches(calls[j].query, d)

\* C2 witness: a run has submitted documents and deleted; the stale document
\* of the collection is gone, the submitted ones and the foreign ones remain.
C2_Witness ==
    /\ pc["A"] = "done"
    /\ Len(Submitted(ThisRun("A"))) >= 2
    /\ Elements(Submitted(ThisRun("A"))) \subseteq index
    /\ StoredDocument(0, "widgets", 0) \notin index
    /\ StoredDocument(-2, "gadgets", MaxClock + 1) \in index

\* The stamp a delete filter compares solr_update_timestamp with.
FilterStamp(q) == q.clauses[Len(q.clauses)].value

\* C3: the watermark is taken per run.  The stamp in the filter of every
\* delete call is not earlier than any document an earlier update() call on
\* the same indexer submitted, so such a document, when the current call has
\* not submitted it again and it is older than the stamp, matches the filter.
C3_WatermarkPerRun ==
    \A k \in 1..Len(calls) :
       calls[k].op = "delete" =>
          LET i == calls[k].inst
              now == Submitted(RunCalls(i, calls[k].run))
          IN \A r \in 1..(calls[k].run - 1) :
                \A d \in Elements(Submitted(RunCalls(i, r))) :
                   (\A e \in Elements(now) : e["pk"] # d["pk"]) =>
                      /\ d["solr_update_timestamp"].v <= FilterStamp(calls[k].query)
                      /\ d["solr_update_timestamp"].v < FilterStamp(calls[k].query)
                            => Matches(calls[k].query, d)

Rank(op) ==
    CASE op = "add" -> 1 [] op = "commit" -> 2 [] op = "query" -> 3
      [] op = "delete" -> 4 [] OTHER -> 5

\* C4: unless a record fails to transform, the engine calls of a run are
\* zero or more add calls with non-empty batches, then one commit, one count
\* query carrying the delete filter with the lucene parser selected, one
\* delete with the same filter and no local parameter, and one optimize,
\* which is the last call of the completed run.
C4_CallOrder ==
    \A i \in Insts :
       LET cs == ThisRun(i)
           filter == << Clause("solr_collection", "eq", meta.collection),
                        Clause("solr_update_timestamp", "lt", watermark[i]) >>
       IN /\ \A k \in 1..Len(cs) :
                /\ cs[k].op = "add" => cs[k].docs # <<>>
                /\ k > 1 => \/ Rank(cs[k].op) = Rank(cs[k - 1].op) + 1
                            \/ cs[k].op = "add" /\ cs[k - 1].op = "add"
                /\ k = 1 => cs[k].op \in {"add", "commit"}
                /\ cs[k].op = "query" =>
                      cs[k].query = [clauses |-> filter, local_params |-> {"lucene"}]
                /\ cs[k].op = "delete" =>
                      cs[k].query = [clauses |-> filter, local_params |-> {}]
          /\ pc[i] = "done" =>
                /\ cs # <<>>
                /\ cs[Len(cs)].op = "optimize"
                /\ \A op \in {"commit", "query", "delete", "optimize"} : Count(cs, op) = 1
          /\ (pc[i] = "commit" /\ pos[i] = Len(records[i])) => additions[i] = <<>>

\* C4 witness: a completed run with an intermediate and a final add.
C4_Witness ==
    /\ pc["A"] = "done"
    /\ Count(ThisRun("A"), "add") >= 2
    /\ Len(ThisRun("A")) = Count(ThisRun("A"), "add") + 4

\* A record on which the required field `title` cannot be resolved.
IsBroken(record) == record.attrs["info"] = None

\* C5: once the loop has pulled a record whose transform fails on a required
\* field, the run is aborted at that record: nothing after it is pulled or
\* transformed, the run's engine calls are add calls only (no commit, query,
\* delete or optimize), and the pending documents and the failing record are
\* in none of them.
C5_AbortOnRequiredFailure ==
    \A i \in Insts :
       (\E k \in 1..pos[i] : IsBroken(records[i][k])) =>
          LET cs == ThisRun(i)
          IN /\ pc[i] = "aborted"
             /\ IsBroken(records[i][pos[i]])
             /\ Len(transformed[i]) = pos[i] - 1
             /\ \A k \in 1..Len(cs) : cs[k].op = "add"
             /\ Submitted(cs) \o additions[i] = transformed[i]
             /\ \A d \in Elements(Submitted(cs)) :
                   /\ d["pk"].v < pos[i]
                   /\ \A e \in Elements(additions[i]) : e["pk"] # d["pk"]

\* C5 witness: an aborted run that had submitted a batch and held pending
\* documents when the record failed.
C5_Witness ==
    /\ pc["A"] = "aborted"
    /\ Count(ThisRun("A"), "add") >= 1
    /\ additions["A"] # <<>>
    /\ pos["A"] < Len(records["A"])

\* C10: from the commit on, the batches passed to add, concatenated in call
\* order, are exactly the documents transform returned for the source's
\* records, in the order the source yielded them, each record once.
C10_BatchesAreTheTransformedRecords ==
    \A i \in Insts :
       pc[i] \in {"sweep", "query", "delete", "optimize", "done"} =>
          LET cs == ThisRun(i)
              sent == Submitted(cs)
          IN /\ sent = transformed[i]
             /\ Len(sent) = Len(records[i])
             /\ \A k \in 1..Len(sent) : sent[k]["pk"] = records[i][k].attrs["pk"]
             /\ \A k \in 1..Len(cs) :
                   cs[k].op = "add" => \A j \in 1..k : cs[j].op = "add"

\* C10 witness: a completed run over MaxRecords records sent in several batches.
C10_Witness ==
    /\ pc["A"] = "done"
    /\ Len(records["A"]) = MaxRecords
    /\ Count(ThisRun("A"), "add") >= 2
    /\ Len(Submitted(ThisRun("A"))) = MaxRecords

\* The record with key k is in the store.
Indexed(k) == \E d \in index : d["pk"].v = k

\* The records both indexers' sources yield.
LiveKeys ==
    {k \in 1..Len(records["A"]) : k <= Len(records["B"])}

\* C6: overlapping runs on one collection can lose a live record.  When both
\* runs have completed, a record that both sources yielded is missing from
\* the store only if the two update() calls overlapped in time.
C6_LossOnlyWhenOverlapping ==
    (pc["A"] = "done" /\ pc["B"] = "done")
    => (overlapped \/ \A k \in LiveKeys : Indexed(k))

\* C6 witness: B sent its count query (its filter was built), then A's add
\* wrote a document, then B's delete, whose filter matches that document,
\* removed it: both runs completed and the record, which both sources
\* yielded, is not in the store.
C6_Witness ==
    /\ pc["A"] = "done"
    /\ pc["B"] = "done"
    /\ \E q \in 1..Len(calls), a \in 1..Len(calls), d \in 1..Len(calls) :
          /\ q < a
          /\ a < d
          /\ calls[q].inst = "B" /\ calls[q].op = "query"
          /\ calls[a].inst = "A" /\ calls[a].op = "add"
          /\ calls[d].inst = "B" /\ calls[d].op = "delete"
          /\ calls[d].query.clauses = calls[q].query.clauses
          /\ \E x \in Elements(calls[a].docs) :
                /\ Matches(calls[d].query, x)
                /\ x["pk"].v \in LiveKeys
                /\ ~Indexed(x["pk"].v)

\* The names of a dotted path.
NamesOf(path) == SelectSeq(path, LAMBDA t : t # ".")

\* Where following `names` from `record` ends: at a value, at a null met
\* before the path was complete, or at an attribute that does not exist.
RECURSIVE Reach(_, _)
Reach(record, names) ==
    IF names = <<>> THEN [state |-> "value", v |-> record]
    ELSE LET before == Reach(record, SubSeq(names, 1, Len(names) - 1))
             last == names[Len(names)]
         IN IF before.state # "value" THEN before
            ELSE IF before.v = None THEN [state |-> "null", v |-> None]
            ELSE IF before.v.kind = "obj" /\ last \in DOMAIN before.v.attrs
            THEN [state |-> "value",
                  v |-> IF before.v.attrs[last].kind = "call"
                        THEN before.v.attrs[last].ret ELSE before.v.attrs[last]]
            ELSE [state |-> "missing", v |-> None]

\* C7: for a field with a dotted path, a returned document maps the field's
\* name to the value at the end of the path when every segment resolves; when
\* a null is met before the path is complete, an optional field is absent
\* from the document and does not make transform fail, and a required field
\* makes transform fail with no document.
C7_TransformResolvesPaths ==
    (arg.op = "transform" /\ res.done) =>
       LET fs == arg.base_fields
           out == res.out
           end(n) == Reach(arg.record, NamesOf(fs[n].attribute))
           pathed == {n \in DOMAIN fs : fs[n].attribute # NoAttribute}
       IN /\ \A n \in pathed :
                /\ (end(n).state = "value" /\ out.ok) =>
                      /\ n \in DOMAIN out.document
                      /\ out.document[n] = end(n).v
                /\ (end(n).state = "null" /\ fs[n].optional /\ out.ok) =>
                      n \notin DOMAIN out.document
                /\ (end(n).state = "null" /\ ~fs[n].optional) =>
                      /\ ~out.ok
                      /\ out.document = <<>>
          /\ (/\ pathed = DOMAIN fs
              /\ \A n \in pathed : \/ end(n).state = "value"
                                   \/ end(n).state = "null" /\ fs[n].optional)
             => out.ok

\* C7 witness: an optional two-segment path stopped by a null is left out of
\* the document while the other field's two-segment path is resolved.
C7_Witness ==
    /\ arg.op = "transform"
    /\ res.done
    /\ res.out.ok
    /\ arg.base_fields["title"].optional
    /\ Len(NamesOf(arg.base_fields["title"].attribute)) = 2
    /\ Reach(arg.record, NamesOf(arg.base_fields["title"].attribute)).state = "null"
    /\ "title" \notin DOMAIN res.out.document
    /\ Len(NamesOf(arg.base_fields["who"].attribute)) = 2
    /\ Reach(arg.record, NamesOf(arg.base_fields["who"].attribute)).state = "value"
    /\ "who" \in DOMAIN res.out.document
    /\ res.out.document["who"] = Atom("w")

\* C8: the field set composed for Child holds every field of Parent's
\* composed field set and Child's own declared fields, Child's own descriptor
\* winning on a name both declare.
C8_ComposedIncludesAncestor ==
    (arg.op = "compose" /\ res.child.ok) =>
       LET inherited == ClassAttr(res.parent.cls, "base_fields").value
           own == DeclaredFields(arg.child)
           composed == ClassAttr(res.child.cls, "base_fields").value
       IN /\ (DOMAIN inherited \cup own) \subseteq DOMAIN composed
          /\ \A n \in own : composed[n] = arg.child[n]
          /\ \A n \in (DOMAIN inherited) \ own : composed[n] = inherited[n]

====
